---- MODULE Spec2Model ----
(***************************************************************************)
(* Drone Defense Mini: wave spawning, drone life cycle and pooling.        *)
(*                                                                         *)
(* The world is the x axis through the base centre: a THREE.Vector3 is an  *)
(* integer x coordinate in fixed point (PosScale per world unit), drones   *)
(* spawn at angle 0 of the perimeter circle and the camera sits at the     *)
(* centre looking along +x.  Time is in units of 1/TimeScale s.            *)
(* Every method is an operator from a world record to a world record; the  *)
(* callbacks wired by the constructors are inlined at the notification.    *)
(***************************************************************************)
EXTENDS Integers, Sequences, FiniteSets, TLC

VARIABLES drones, waveManager, gameState, playerBase, player, input, events, ret, call

vars == <<drones, waveManager, gameState, playerBase, player, input, events, ret, call>>

(***************************************************************************)
(* Bounds of the model (scaled-down scenario sizes).                       *)
(***************************************************************************)
\* size of the drone pool (maxDrones is 30 in initializeDronePool)
MaxDrones == 2
\* size of the projectile pool (20 in the Player constructor)
MaxProjectiles == 1
\* waves played in one session before the model stops ticking
MaxWave == 2
\* perimeter radius in world units (Config.DRONE_SPAWN_DISTANCE is 50)
SpawnDistance == 7
\* spawn delay of wave 1, time units (2.0 s in the source)
SpawnDelayBase == 2
\* spawn delay decrement per wave, time units (0.1 s in the source)
SpawnDelayStep == 1
\* spawn delay floor, time units (0.5 s in the source)
SpawnDelayFloor == 1
\* inter-wave cooldown, time units (Config.WAVE_COOLDOWN is 5 s)
WaveCooldown == 2
\* wave timer set by WaveManager.reset, time units (1 s in the source)
FirstWaveDelay == 1
\* projectile lifespan, time units (3.0 s in the source)
ProjectileLifespan == 3
\* base health (Config.BASE_HEALTH is 100)
BaseMaxHealth == 25
\* largest frame time, time units, the host may deliver
MaxDelta == 2
\* seconds between shots, time units (Config.ShootCooldown is 0.25 s)
ShootCooldown == 2
\* largest amount passed to takeDamage / damage by a direct caller
MaxAmount == 30
\* direct callers stop once a drone or the base has notified this often in one life
MaxNotified == 2
\* direct callers stop once the score has passed this value
MaxScore == 20
\* largest wave number whose configuration is looked up
MaxConfigWave == 60
\* the values Math.random() takes when a spawn height is drawn: r / RandomSteps
RandomSteps == 4

(***************************************************************************)
(* Program constants.                                                      *)
(***************************************************************************)
BASIC_DRONE_HEALTH == 20
DRONE_SPAWN_HEIGHT_MIN == 2
DRONE_SPAWN_HEIGHT_MAX == 10
BASIC_DRONE_SPEED == 5
BASIC_DRONE_POINTS == 10
DroneDamage == 10
PROJECTILE_SPEED == 50
PROJECTILE_DAMAGE == 20
INITIAL_WAVE_DRONE_COUNT == 3
WAVE_DRONE_INCREMENT == 2
DroneCountCap == 30
baseSize == 5

\* fixed point: position units per world unit, time units per second
PosScale == 20 * 20
TimeScale == 2 * 10
\* Math.min(deltaTime, 0.1)
DtCap == TimeScale \div 10
\* droneRadius = 1.0, Config.PROJECTILE_SIZE = 0.2
droneRadius == PosScale
PROJECTILE_SIZE == PosScale \div 5
\* Config.BASE_POSITION on the axis
BASE_POSITION == 0

DroneIds == 1..MaxDrones
ProjIds == 1..MaxProjectiles
Amounts == {0, 10, MaxAmount}

Max(a, b) == IF a >= b THEN a ELSE b
Min(a, b) == IF a <= b THEN a ELSE b
Abs(a) == IF a >= 0 THEN a ELSE 0 - a
Sign(a) == IF a > 0 THEN 1 ELSE IF a < 0 THEN 0 - 1 ELSE 0

\* Array.prototype.indexOf
IndexOf(s, x) == IF \E i \in 1..Len(s) : s[i] = x THEN CHOOSE i \in 1..Len(s) : s[i] = x /\ \A j \in 1..(i - 1) : s[j] # x ELSE 0
\* a splice that removes nothing
Splice_nothing(s, i) == s
\* Array.prototype.splice(i, 1), 1-based
Splice(s, i) == [k \in 1..(Len(s) - 1) |-> IF k < i THEN s[k] ELSE s[k + 1]]
Includes(s, x) == \E i \in 1..Len(s) : s[i] = x

Event(t, i, v) == [type |-> t, id |-> i, val |-> v]
Emit(w, t, i, v) == [w EXCEPT !.events = Append(@, Event(t, i, v))]

\* THREE.Vector3.distanceTo on the axis
distanceTo(a, b) == Abs(a - b)

(***************************************************************************)
(* GameState                                                               *)
(***************************************************************************)
GameState_setState(w, newState) == Emit([w EXCEPT !.gameState.state = newState], "stateChange", newState, w.gameState.state)

GameState_setBaseHealth(w, health) == LET w1 == [w EXCEPT !.gameState.baseHealth = Max(0, health)] IN IF w1.gameState.baseHealth <= 0 /\ w1.gameState.state # "gameOver" THEN GameState_setState(w1, "gameOver") ELSE w1

GameState_addScore(w, points) == [w EXCEPT !.gameState.score = @ + points]

GameState_incrementWave(w) == [w EXCEPT !.gameState.wave = @ + 1]

GameState_startGame(w, baseHealth) == GameState_setState([w EXCEPT !.gameState.score = 0, !.gameState.wave = 1, !.gameState.baseHealth = baseHealth], "playing")

(***************************************************************************)
(* PlayerBase                                                              *)
(***************************************************************************)
\* the listener Game registers with playerBase.onHealthChange
Game_onBaseHealthChange(w, health) == GameState_setBaseHealth(w, health)

\* the listener Game registers with playerBase.onDestroyed
Game_onBaseDestroyed(w) == GameState_setState(w, "gameOver")

\* damage without the clamp at zero
PlayerBase_damage_unclamped(w, amount) ==
  LET w1 == [w EXCEPT !.playerBase.health = @ - amount]
      w2 == Game_onBaseHealthChange(Emit(w1, "healthChange", 0, w1.playerBase.health), w1.playerBase.health)
  IN IF w2.playerBase.health <= 0
     THEN [Game_onBaseDestroyed(Emit([w2 EXCEPT !.playerBase.destroyedFired = @ + 1], "baseDestroyed", 0, 0)) EXCEPT !.ret = FALSE]
     ELSE [w2 EXCEPT !.ret = TRUE]

PlayerBase_damage(w, amount) ==
  LET w1 == [w EXCEPT !.playerBase.health = Max(0, @ - amount)]
      w2 == Game_onBaseHealthChange(Emit(w1, "healthChange", 0, w1.playerBase.health), w1.playerBase.health)
  IN IF w2.playerBase.health <= 0
     THEN [Game_onBaseDestroyed(Emit([w2 EXCEPT !.playerBase.destroyedFired = @ + 1], "baseDestroyed", 0, 0)) EXCEPT !.ret = FALSE]
     ELSE [w2 EXCEPT !.ret = TRUE]

PlayerBase_reset(w) ==
  LET w1 == [w EXCEPT !.playerBase.health = BaseMaxHealth, !.playerBase.isActive = TRUE, !.playerBase.destroyedFired = 0]
  IN Game_onBaseHealthChange(Emit(w1, "healthChange", 0, w1.playerBase.health), w1.playerBase.health)

(***************************************************************************)
(* Entity / Drone                                                          *)
(***************************************************************************)
\* Entity.setActive: the flag and mesh.visible together
Entity_setActive(w, d, active) == [w EXCEPT !.drones[d].isActive = active, !.drones[d].meshVisible = active]

\* a removal that leaves the mesh in the scene
RemoveMesh_nothing(w, d) == w

\* mesh.parent.remove(mesh), guarded by "mesh && mesh.parent" at every call site
RemoveMesh(w, d) == IF w.drones[d].meshParent THEN [w EXCEPT !.drones[d].meshParent = FALSE] ELSE w

\* Drone.setMesh: the scene is tracked only when the mesh already has one as parent
Drone_setMesh(dr) == [dr EXCEPT !.scene = IF dr.meshParent THEN TRUE ELSE @]

\* WaveManager.notifyDroneDestroyed: the listener Game registers plays no sound
notifyDroneDestroyed(w, d) == Emit(w, "waveDroneDestroyed", d, w.drones[d].position)

\* the log notes each write to activeDrones: the drone moved in or out (the
\* number of drones dropped when the list is replaced) and the method whose
\* statement wrote
ListWrite(w, d, writer) == Emit(w, "listWrite", d, writer)

\* handleDroneDestroyed that trusts the drone to be inactive already
handleDroneDestroyed_leavesActive(w, d, points) ==
  LET w1 == IF points > 0 THEN GameState_addScore(w, points) ELSE w
      w2 == notifyDroneDestroyed(w1, d)
      index == IndexOf(w2.waveManager.activeDrones, d)
      w3 == IF index >= 1 THEN ListWrite([w2 EXCEPT !.waveManager.activeDrones = Splice(@, index)], d, "handleDroneDestroyed") ELSE w2
  IN RemoveMesh(w3, d)

\* handleDroneDestroyed that leaves the drone in activeDrones
handleDroneDestroyed_keepsList(w, d, points) ==
  LET w1 == IF points > 0 THEN GameState_addScore(w, points) ELSE w
      w2 == notifyDroneDestroyed(w1, d)
      w4 == IF w2.drones[d].isActive THEN Entity_setActive(w2, d, FALSE) ELSE w2
  IN RemoveMesh(w4, d)

\* handleDroneDestroyed that leaves the mesh in the scene
handleDroneDestroyed_keepsMesh(w, d, points) ==
  LET w1 == IF points > 0 THEN GameState_addScore(w, points) ELSE w
      w2 == notifyDroneDestroyed(w1, d)
      index == IndexOf(w2.waveManager.activeDrones, d)
      w3 == IF index >= 1 THEN ListWrite([w2 EXCEPT !.waveManager.activeDrones = Splice(@, index)], d, "handleDroneDestroyed") ELSE w2
  IN IF w3.drones[d].isActive THEN Entity_setActive(w3, d, FALSE) ELSE w3

\* WaveManager.handleDroneDestroyed, the listener of every pooled drone
handleDroneDestroyed(w, d, points) ==
  LET w1 == IF points > 0 THEN GameState_addScore(w, points) ELSE w
      w2 == notifyDroneDestroyed(w1, d)
      index == IndexOf(w2.waveManager.activeDrones, d)
      w3 == IF index >= 1 THEN ListWrite([w2 EXCEPT !.waveManager.activeDrones = Splice(@, index)], d, "handleDroneDestroyed") ELSE w2
      w4 == IF w3.drones[d].isActive THEN Entity_setActive(w3, d, FALSE) ELSE w3
  IN RemoveMesh(w4, d)

\* Drone.notifyDestroyed: calls the registered listeners with the points; the
\* log notes whether the drone is inactive and out of activeDrones on return
notifyDestroyed(w, d, points) ==
  LET w1 == [Emit(w, "droneDestroyed", d, points) EXCEPT !.drones[d].notified = @ + 1]
      w2 == handleDroneDestroyed(w1, d, points)
  IN Emit(w2, "droneGone", d, IF ~w2.drones[d].isActive /\ ~Includes(w2.waveManager.activeDrones, d) THEN 1 ELSE 0)

\* forceDestroy that only zeroes the health
forceDestroy_healthOnly(w, d) == [w EXCEPT !.drones[d].health = 0]

\* forceDestroy that tells no listener
forceDestroy_silent(w, d) ==
  LET w1 == [w EXCEPT !.drones[d].health = 0, !.drones[d].isActive = FALSE]
  IN IF w1.drones[d].meshParent THEN Emit(RemoveMesh(w1, d), "explosion", d, w1.drones[d].position) ELSE w1

\* Drone.forceDestroy
forceDestroy(w, d) ==
  LET w1 == [w EXCEPT !.drones[d].health = 0, !.drones[d].isActive = FALSE]
      w2 == IF w1.drones[d].meshParent THEN Emit(RemoveMesh(w1, d), "explosion", d, w1.drones[d].position) ELSE w1
  IN notifyDestroyed(w2, d, BASIC_DRONE_POINTS)

\* takeDamage that zeroes the health and leaves the destruction to others
takeDamage_noDestroy(w, d, amount) ==
  IF w.drones[d].health <= 0 \/ ~w.drones[d].isActive
  THEN [w EXCEPT !.ret = FALSE]
  ELSE LET w1 == [w EXCEPT !.drones[d].health = Max(0, @ - amount)]
       IN [w1 EXCEPT !.ret = (w1.drones[d].health > 0)]

\* takeDamage that looks at the health only, not at the active flag
takeDamage_inactiveToo(w, d, amount) ==
  IF w.drones[d].health <= 0
  THEN [w EXCEPT !.ret = FALSE]
  ELSE LET w1 == [w EXCEPT !.drones[d].health = Max(0, @ - amount)]
       IN IF w1.drones[d].health <= 0
          THEN [forceDestroy(w1, d) EXCEPT !.ret = FALSE]
          ELSE [w1 EXCEPT !.ret = TRUE]

\* takeDamage without the guard on dead or inactive drones
takeDamage_unguarded(w, d, amount) ==
  LET w1 == [w EXCEPT !.drones[d].health = Max(0, @ - amount)]
  IN IF w1.drones[d].health <= 0
     THEN [forceDestroy(w1, d) EXCEPT !.ret = FALSE]
     ELSE [w1 EXCEPT !.ret = TRUE]

\* Drone.takeDamage
takeDamage(w, d, amount) ==
  IF w.drones[d].health <= 0 \/ ~w.drones[d].isActive
  THEN [w EXCEPT !.ret = FALSE]
  ELSE LET w1 == [w EXCEPT !.drones[d].health = Max(0, @ - amount)]
       IN IF w1.drones[d].health <= 0
          THEN [forceDestroy(w1, d) EXCEPT !.ret = FALSE]
          ELSE [w1 EXCEPT !.ret = TRUE]

\* attackBase that leaves the base alone
attackBase_harmless(w, d) == w

\* Drone.attackBase
attackBase(w, d) == PlayerBase_damage(w, DroneDamage)

\* checkBaseCollision that reports the drone's points when it reaches the base
checkBaseCollision_scores(w, d) ==
  IF ~w.drones[d].isActive \/ w.drones[d].health <= 0 THEN w
  ELSE IF ~w.drones[d].meshVisible THEN w
  ELSE IF distanceTo(w.drones[d].position, BASE_POSITION) < (baseSize + 1) * PosScale
       THEN notifyDestroyed(Entity_setActive(attackBase(w, d), d, FALSE), d, BASIC_DRONE_POINTS)
       ELSE w

\* Drone.checkBaseCollision
checkBaseCollision(w, d) ==
  IF ~w.drones[d].isActive \/ w.drones[d].health <= 0 THEN w
  ELSE IF ~w.drones[d].meshVisible THEN w
  ELSE IF distanceTo(w.drones[d].position, BASE_POSITION) < (baseSize + 1) * PosScale
       THEN notifyDestroyed(Entity_setActive(attackBase(w, d), d, FALSE), d, 0)
       ELSE w

\* speed * deltaTime along the axis, in position units
Movement(speed, deltaTime) == (speed * deltaTime) \div TimeScale

\* Drone.update that leaves the drone where it is
Drone_update_hover(w, d, deltaTime) ==
  IF w.drones[d].health <= 0 THEN forceDestroy(w, d)
  ELSE IF ~w.drones[d].isActive THEN w
  ELSE checkBaseCollision(Emit(w, "droneUpdate", d, w.drones[d].position), d)

\* Drone.update
Drone_update(w, d, deltaTime) ==
  IF w.drones[d].health <= 0 THEN forceDestroy(w, d)
  ELSE IF ~w.drones[d].isActive THEN w
  ELSE LET direction == Sign(BASE_POSITION - w.drones[d].position)
           w1 == [w EXCEPT !.drones[d].position = @ + direction * Movement(w.drones[d].speed, deltaTime)]
       IN checkBaseCollision(Emit(w1, "droneUpdate", d, w1.drones[d].position), d)

\* Drone.reset
Drone_reset(w, d, position) ==
  LET w1 == [w EXCEPT !.drones[d].health = BASIC_DRONE_HEALTH, !.drones[d].position = position, !.drones[d].meshVisible = TRUE, !.drones[d].notified = 0]
      w2 == IF ~w1.drones[d].meshParent /\ w1.drones[d].scene THEN [w1 EXCEPT !.drones[d].meshParent = TRUE] ELSE w1
  IN Entity_setActive([w2 EXCEPT !.drones[d].isActive = TRUE], d, TRUE)

\* Drone.setWaveNumber, setSpeed, setPathVariation: plain configuration setters
setWaveNumber(w, d, n) == [w EXCEPT !.drones[d].waveNumber = n]
setSpeed(w, d, speed) == [w EXCEPT !.drones[d].speed = speed]
setPathVariation(w, d, variation) == [w EXCEPT !.drones[d].pathVariation = variation]

(***************************************************************************)
(* WaveManager                                                             *)
(***************************************************************************)
\* what waveConfigs[-1] reads when currentWave is 0
Undefined == [basicDroneCount |-> 0 - 1, spawnDelay |-> 0 - 1, waveDelay |-> 0 - 1]

\* WaveManager.initializeWaveConfigs
waveConfigs == <<[basicDroneCount |-> INITIAL_WAVE_DRONE_COUNT, spawnDelay |-> SpawnDelayBase, waveDelay |-> WaveCooldown]>>

\* getCurrentWaveConfig without the cap on the drone count
getCurrentWaveConfig_uncapped(currentWave) ==
  IF currentWave <= Len(waveConfigs)
  THEN IF currentWave >= 1 THEN waveConfigs[currentWave] ELSE Undefined
  ELSE [basicDroneCount |-> INITIAL_WAVE_DRONE_COUNT + (currentWave - 1) * WAVE_DRONE_INCREMENT,
        spawnDelay |-> Max(SpawnDelayFloor, SpawnDelayBase - currentWave * SpawnDelayStep),
        waveDelay |-> WaveCooldown]

\* WaveManager.getCurrentWaveConfig
getCurrentWaveConfig(currentWave) ==
  IF currentWave <= Len(waveConfigs)
  THEN IF currentWave >= 1 THEN waveConfigs[currentWave] ELSE Undefined
  ELSE [basicDroneCount |-> Min(DroneCountCap, INITIAL_WAVE_DRONE_COUNT + (currentWave - 1) * WAVE_DRONE_INCREMENT),
        spawnDelay |-> Max(SpawnDelayFloor, SpawnDelayBase - currentWave * SpawnDelayStep),
        waveDelay |-> WaveCooldown]

\* WaveManager.getWaveDroneCount: the basic count plus the fast and tank
\* counts of a config that has them
getWaveDroneCount(currentWave) ==
  LET config == getCurrentWaveConfig(currentWave)
      count == config.basicDroneCount
      count1 == IF "fastDroneCount" \in DOMAIN config THEN count + config.fastDroneCount ELSE count
  IN IF "tankDroneCount" \in DOMAIN config THEN count1 + config.tankDroneCount ELSE count1

\* getInactiveDrone that looks at the health only, and wants it above 0
getInactiveDrone_healthy(w) ==
  IF \E i \in DroneIds : w.drones[i].health > 0 THEN CHOOSE i \in DroneIds : w.drones[i].health > 0 /\ \A j \in 1..(i - 1) : w.drones[j].health <= 0 ELSE 0

\* getInactiveDrone that hands out the first pooled drone whatever its state
getInactiveDrone_first(w) == 1

\* WaveManager.getInactiveDrone: the first pooled drone that qualifies, 0 for null
getInactiveDrone(w) ==
  LET ok(i) == ~w.drones[i].isActive /\ (w.drones[i].health <= 0 \/ ~Includes(w.waveManager.activeDrones, i))
  IN IF \E i \in DroneIds : ok(i) THEN CHOOSE i \in DroneIds : ok(i) /\ \A j \in 1..(i - 1) : ~ok(j) ELSE 0

\* WaveManager.getRandomSpawnPosition: angle 0 on the perimeter circle
getRandomSpawnPosition(w) == BASE_POSITION + SpawnDistance * PosScale

\* WaveManager.getRandomSpawnPosition: the height of the position, in
\* 1 / RandomSteps world units, when Math.random() returns r / RandomSteps
spawnHeight(currentWave, r) ==
  LET minHeight == DRONE_SPAWN_HEIGHT_MIN
      baseMaxHeight == DRONE_SPAWN_HEIGHT_MAX
      waveHeightIncrease == Max(0, (currentWave - 1) * 2)
      maxHeight == baseMaxHeight + waveHeightIncrease
  IN minHeight * RandomSteps + r * (maxHeight - minHeight)

\* applyWaveModifications that never sets a path variation
applyWaveModifications_noVariation(w, d) ==
  LET n == w.waveManager.currentWave
      w1 == setWaveNumber(w, d, n)
      w2 == setSpeed(w1, d, (w1.drones[d].speed * (20 + (n - 1))) \div 20)
  IN setPathVariation(w2, d, 0)

\* WaveManager.applyWaveModifications: speed is multiplied by 1 + (wave - 1) * 0.05,
\* path variation is kept in tenths
applyWaveModifications(w, d) ==
  LET n == w.waveManager.currentWave
      w1 == setWaveNumber(w, d, n)
      w2 == setSpeed(w1, d, (w1.drones[d].speed * (20 + (n - 1))) \div 20)
  IN IF n >= 3 THEN setPathVariation(w2, d, (n - 2) * 3) ELSE setPathVariation(w2, d, 0)

\* spawnDrone that forgets to count the spawn
spawnDrone_uncounted(w) ==
  IF w.waveManager.spawnCount <= 0 THEN w
  ELSE LET d == getInactiveDrone(w)
       IN IF d = 0 THEN w
          ELSE LET w1 == applyWaveModifications(Drone_reset(w, d, getRandomSpawnPosition(w)), d)
               IN Emit([w1 EXCEPT !.drones[d].meshParent = TRUE, !.waveManager.activeDrones = Append(@, d)], "spawn", d, w1.waveManager.currentWave)

\* the log notes the drone the pool handed out as it was then: its health,
\* whether it was active and whether it was in activeDrones
Acquired(w, d) ==
  LET w1 == Emit(w, "acquire", d, w.drones[d].health)
      w2 == Emit(w1, "acquireActive", d, IF w.drones[d].isActive THEN 1 ELSE 0)
  IN Emit(w2, "acquireListed", d, IF Includes(w.waveManager.activeDrones, d) THEN 1 ELSE 0)

\* WaveManager.spawnDrone
spawnDrone(w) ==
  IF w.waveManager.spawnCount <= 0 THEN w
  ELSE LET d == getInactiveDrone(w)
       IN IF d = 0 THEN w
          ELSE LET w1 == Drone_reset(Acquired(w, d), d, getRandomSpawnPosition(w))
                   w2 == applyWaveModifications(Emit(w1, "reset", d, IF w1.drones[d].meshParent THEN 1 ELSE 0), d)
               IN IF w2.drones[d].health <= 0 THEN forceDestroy(w2, d)
                  ELSE LET w3 == IF ~w2.drones[d].meshParent THEN [w2 EXCEPT !.drones[d].meshParent = TRUE] ELSE w2
                       IN Emit(ListWrite([w3 EXCEPT !.waveManager.activeDrones = Append(@, d), !.waveManager.spawnCount = @ - 1], d, "WaveManager.update"), "spawn", d, w3.waveManager.currentWave)

\* startNextWave that passes over a wave number
startNextWave_skipsWave(w) ==
  LET w1 == GameState_incrementWave([w EXCEPT !.waveManager.currentWave = @ + 2])
      w2 == [w1 EXCEPT !.waveManager.isWaveActive = TRUE, !.waveManager.spawnCount = getWaveDroneCount(w1.waveManager.currentWave), !.waveManager.spawnTimer = 0]
  IN Emit(w2, "waveStart", 0, w2.waveManager.currentWave)

\* startNextWave that counts the drones of the wave that has just ended
startNextWave_staleCount(w) ==
  LET w1 == GameState_incrementWave([w EXCEPT !.waveManager.currentWave = @ + 1])
      w2 == [w1 EXCEPT !.waveManager.isWaveActive = TRUE, !.waveManager.spawnCount = getWaveDroneCount(Max(1, w.waveManager.currentWave)), !.waveManager.spawnTimer = 0]
  IN Emit(w2, "waveStart", 0, w2.waveManager.currentWave)

\* WaveManager.startNextWave
startNextWave(w) ==
  LET w1 == GameState_incrementWave([w EXCEPT !.waveManager.currentWave = @ + 1])
      w2 == [w1 EXCEPT !.waveManager.isWaveActive = TRUE, !.waveManager.spawnCount = getWaveDroneCount(w1.waveManager.currentWave), !.waveManager.spawnTimer = 0]
  IN Emit(w2, "waveStart", 0, w2.waveManager.currentWave)

\* endWave that does not arm the cooldown
endWave_noCooldown(w) == Emit([w EXCEPT !.waveManager.isWaveActive = FALSE], "waveEnd", 0, w.waveManager.currentWave)

\* WaveManager.endWave
endWave(w) ==
  LET w1 == [w EXCEPT !.waveManager.isWaveActive = FALSE, !.waveManager.waveTimer = getCurrentWaveConfig(w.waveManager.currentWave).waveDelay]
  IN Emit(w1, "waveEnd", 0, w1.waveManager.currentWave)

\* the loop of WaveManager.updateActiveDrones, i is the 1-based index
RECURSIVE updateActiveDronesFrom(_, _, _)
updateActiveDronesFrom(w, i, deltaTime) ==
  IF i < 1 THEN w
  ELSE IF i > Len(w.waveManager.activeDrones) THEN updateActiveDronesFrom(w, i - 1, deltaTime)
  ELSE LET d == w.waveManager.activeDrones[i]
       IN IF ~w.drones[d].isActive \/ w.drones[d].health <= 0
          THEN updateActiveDronesFrom(RemoveMesh(ListWrite([w EXCEPT !.waveManager.activeDrones = Splice(@, i)], d, "WaveManager.update"), d), i - 1, deltaTime)
          ELSE updateActiveDronesFrom(Drone_update(w, d, deltaTime), i - 1, deltaTime)

\* the same loop run from the first index up, i is the 1-based index
RECURSIVE updateActiveDronesUpFrom(_, _, _)
updateActiveDronesUpFrom(w, i, deltaTime) ==
  IF i > Len(w.waveManager.activeDrones) THEN w
  ELSE LET d == w.waveManager.activeDrones[i]
       IN IF ~w.drones[d].isActive \/ w.drones[d].health <= 0
          THEN updateActiveDronesUpFrom(RemoveMesh(ListWrite([w EXCEPT !.waveManager.activeDrones = Splice(@, i)], d, "WaveManager.update"), d), i + 1, deltaTime)
          ELSE updateActiveDronesUpFrom(Drone_update(w, d, deltaTime), i + 1, deltaTime)

\* updateActiveDrones that iterates in forward index order
updateActiveDrones_forward(w, deltaTime) == updateActiveDronesUpFrom(w, 1, deltaTime)

\* WaveManager.updateActiveDrones
updateActiveDrones(w, deltaTime) == updateActiveDronesFrom(w, Len(w.waveManager.activeDrones), deltaTime)

\* the same loop when the update of each drone in raising throws at its last
\* statement, the updateDroneBehavior hook: the catch block splices index i
RECURSIVE updateActiveDronesCatchingFrom(_, _, _, _)
updateActiveDronesCatchingFrom(w, i, deltaTime, raising) ==
  IF i < 1 THEN w
  ELSE IF i > Len(w.waveManager.activeDrones) THEN updateActiveDronesCatchingFrom(w, i - 1, deltaTime, raising)
  ELSE LET d == w.waveManager.activeDrones[i]
       IN IF ~w.drones[d].isActive \/ w.drones[d].health <= 0
          THEN updateActiveDronesCatchingFrom(RemoveMesh(ListWrite([w EXCEPT !.waveManager.activeDrones = Splice(@, i)], d, "WaveManager.update"), d), i - 1, deltaTime, raising)
          ELSE LET w1 == Drone_update(w, d, deltaTime)
                   w2 == Emit(w1, "updateError", d, i)
               IN IF d \notin raising THEN updateActiveDronesCatchingFrom(w1, i - 1, deltaTime, raising)
                  ELSE IF i > Len(w2.waveManager.activeDrones) THEN updateActiveDronesCatchingFrom(w2, i - 1, deltaTime, raising)
                  ELSE updateActiveDronesCatchingFrom(ListWrite([w2 EXCEPT !.waveManager.activeDrones = Splice(@, i)], w2.waveManager.activeDrones[i], "WaveManager.update"), i - 1, deltaTime, raising)

\* WaveManager.updateActiveDrones with its catch block
updateActiveDronesCatching(w, deltaTime, raising) == updateActiveDronesCatchingFrom(w, Len(w.waveManager.activeDrones), deltaTime, raising)

\* WaveManager.update when the updates of the drones in raising throw
WaveManager_updateCatching(w, deltaTime, raising) ==
  IF w.gameState.state # "playing" THEN w
  ELSE LET w1 == updateActiveDronesCatching(w, deltaTime, raising)
       IN IF ~w1.waveManager.isWaveActive
          THEN LET w2 == [w1 EXCEPT !.waveManager.waveTimer = @ - deltaTime]
               IN IF w2.waveManager.waveTimer <= 0 THEN startNextWave(w2) ELSE w2
          ELSE IF w1.waveManager.spawnCount > 0
               THEN LET w2 == [w1 EXCEPT !.waveManager.spawnTimer = @ - deltaTime]
                    IN IF w2.waveManager.spawnTimer <= 0
                       THEN [spawnDrone(Emit(w2, "spawnAttempt", 0, w2.waveManager.currentWave)) EXCEPT !.waveManager.spawnTimer = getCurrentWaveConfig(w2.waveManager.currentWave).spawnDelay]
                       ELSE w2
               ELSE IF Len(w1.waveManager.activeDrones) = 0 THEN endWave(w1) ELSE w1

\* WaveManager.update that re-arms the spawn timer only after a spawn
WaveManager_update_retry(w, deltaTime) ==
  IF w.gameState.state # "playing" THEN w
  ELSE LET w1 == updateActiveDrones(w, deltaTime)
       IN IF ~w1.waveManager.isWaveActive
          THEN LET w2 == [w1 EXCEPT !.waveManager.waveTimer = @ - deltaTime]
               IN IF w2.waveManager.waveTimer <= 0 THEN startNextWave(w2) ELSE w2
          ELSE IF w1.waveManager.spawnCount > 0
               THEN LET w2 == [w1 EXCEPT !.waveManager.spawnTimer = @ - deltaTime]
                        w3 == spawnDrone(Emit(w2, "spawnAttempt", 0, w2.waveManager.currentWave))
                    IN IF w2.waveManager.spawnTimer <= 0
                       THEN IF w3.waveManager.spawnCount < w2.waveManager.spawnCount
                            THEN [w3 EXCEPT !.waveManager.spawnTimer = getCurrentWaveConfig(w2.waveManager.currentWave).spawnDelay]
                            ELSE w3
                       ELSE w2
               ELSE IF Len(w1.waveManager.activeDrones) = 0 THEN endWave(w1) ELSE w1

\* WaveManager.update
WaveManager_update(w, deltaTime) ==
  IF w.gameState.state # "playing" THEN w
  ELSE LET w1 == updateActiveDrones(w, deltaTime)
       IN IF ~w1.waveManager.isWaveActive
          THEN LET w2 == [w1 EXCEPT !.waveManager.waveTimer = @ - deltaTime]
               IN IF w2.waveManager.waveTimer <= 0 THEN startNextWave(w2) ELSE w2
          ELSE IF w1.waveManager.spawnCount > 0
               THEN LET w2 == [w1 EXCEPT !.waveManager.spawnTimer = @ - deltaTime]
                    IN IF w2.waveManager.spawnTimer <= 0
                       THEN [spawnDrone(Emit(w2, "spawnAttempt", 0, w2.waveManager.currentWave)) EXCEPT !.waveManager.spawnTimer = getCurrentWaveConfig(w2.waveManager.currentWave).spawnDelay]
                       ELSE w2
               ELSE IF Len(w1.waveManager.activeDrones) = 0 THEN endWave(w1) ELSE w1

\* the per-drone body of the loop in WaveManager.reset
WaveManager_resetDrone(dr) == [dr EXCEPT !.waveNumber = 1, !.pathVariation = 0, !.speed = BASIC_DRONE_SPEED * PosScale, !.isActive = FALSE, !.meshVisible = FALSE, !.meshParent = FALSE]

\* WaveManager.reset that leaves the wave marked as running
WaveManager_reset_keepsActive(w) ==
  [ListWrite(w, Len(w.waveManager.activeDrones), "WaveManager.reset") EXCEPT !.waveManager = [currentWave |-> 0, isWaveActive |-> w.waveManager.isWaveActive, waveTimer |-> FirstWaveDelay, spawnCount |-> 0, spawnTimer |-> 0, activeDrones |-> << >>],
            !.drones = [d \in DroneIds |-> WaveManager_resetDrone(w.drones[d])]]

\* WaveManager.reset that leaves the wave counters as they are
WaveManager_reset_keepsWave(w) ==
  [ListWrite(w, Len(w.waveManager.activeDrones), "WaveManager.reset") EXCEPT !.waveManager.activeDrones = << >>,
            !.drones = [d \in DroneIds |-> WaveManager_resetDrone(w.drones[d])]]

\* WaveManager.reset
WaveManager_reset(w) ==
  [ListWrite(w, Len(w.waveManager.activeDrones), "WaveManager.reset") EXCEPT !.waveManager = [currentWave |-> 0, isWaveActive |-> FALSE, waveTimer |-> FirstWaveDelay, spawnCount |-> 0, spawnTimer |-> 0, activeDrones |-> << >>],
            !.drones = [d \in DroneIds |-> WaveManager_resetDrone(w.drones[d])]]

(***************************************************************************)
(* Projectile / Player                                                     *)
(***************************************************************************)
\* Projectile.update
Projectile_update(w, p, deltaTime) ==
  IF ~w.player.projectiles[p].isActive THEN w
  ELSE LET w1 == [w EXCEPT !.player.projectiles[p].elapsed = @ + deltaTime]
       IN IF w1.player.projectiles[p].elapsed >= ProjectileLifespan
          THEN [w1 EXCEPT !.player.projectiles[p].isActive = FALSE]
          ELSE [w1 EXCEPT !.player.projectiles[p].position = @ + w1.player.projectiles[p].direction * Movement(PROJECTILE_SPEED * PosScale, deltaTime)]

\* Projectile.reset
Projectile_reset(w, p, position, direction) == [w EXCEPT !.player.projectiles[p] = [isActive |-> TRUE, position |-> position, direction |-> direction, elapsed |-> 0]]

\* Player.getProjectileFromPool: the first inactive projectile, 0 for null
getProjectileFromPool(w) ==
  IF \E p \in ProjIds : ~w.player.projectiles[p].isActive
  THEN CHOOSE p \in ProjIds : ~w.player.projectiles[p].isActive /\ \A q \in 1..(p - 1) : w.player.projectiles[q].isActive
  ELSE 0

\* Player.tryShoot: sinceShot is performance.now() - lastShootTime, kept up to the cooldown
tryShoot(w) ==
  IF w.player.sinceShot < ShootCooldown THEN w
  ELSE LET w1 == [w EXCEPT !.player.sinceShot = 0]
           p == getProjectileFromPool(w1)
       IN IF p = 0 THEN w1
          ELSE LET offsetPosition == w1.player.cameraDirection * (PosScale \div 2)
                   w2 == Projectile_reset(w1, p, offsetPosition, w1.player.cameraDirection)
               IN Emit([w2 EXCEPT !.player.activeProjectiles = Append(@, p)], "shoot", p, 0)

\* the loop of Player.updateProjectiles, i is the 1-based index
RECURSIVE updateProjectilesFrom(_, _, _)
updateProjectilesFrom(w, i, deltaTime) ==
  IF i < 1 THEN w
  ELSE LET p == w.player.activeProjectiles[i]
           w1 == Projectile_update(w, p, deltaTime)
       IN updateProjectilesFrom(IF ~w1.player.projectiles[p].isActive THEN [w1 EXCEPT !.player.activeProjectiles = Splice(@, i)] ELSE w1, i - 1, deltaTime)

\* Player.updateProjectiles
updateProjectiles(w, deltaTime) == updateProjectilesFrom(w, Len(w.player.activeProjectiles), deltaTime)

\* Player.update: the mouse is not moved, the camera keeps looking along +x
Player_update(w, deltaTime, isShooting) == updateProjectiles(IF isShooting THEN tryShoot(w) ELSE w, deltaTime)

\* Player.reset
Player_reset(w) ==
  [w EXCEPT !.player.cameraDirection = 1, !.player.sinceShot = ShootCooldown, !.player.activeProjectiles = << >>,
            !.player.projectiles = [p \in ProjIds |-> IF Includes(w.player.activeProjectiles, p) THEN [w.player.projectiles[p] EXCEPT !.isActive = FALSE] ELSE w.player.projectiles[p]]]

(***************************************************************************)
(* CollisionManager                                                        *)
(***************************************************************************)
\* Collision.sphereToSphere
sphereToSphere(position1, radius1, position2, radius2) == distanceTo(position1, position2) < radius1 + radius2

\* the inner loop without the break after a hit
RECURSIVE checkDronesFrom_noBreak(_, _, _)
checkDronesFrom_noBreak(w, p, j) ==
  IF j > Len(w.waveManager.activeDrones) THEN w
  ELSE LET d == w.waveManager.activeDrones[j]
       IN IF ~w.drones[d].isActive \/ w.drones[d].health <= 0 THEN checkDronesFrom_noBreak(w, p, j + 1)
          ELSE IF sphereToSphere(w.player.projectiles[p].position, PROJECTILE_SIZE, w.drones[d].position, droneRadius)
               THEN LET w1 == Emit([w EXCEPT !.player.projectiles[p].isActive = FALSE], "hit", d, w.drones[d].health)
                        w2 == IF w1.drones[d].health <= PROJECTILE_DAMAGE THEN forceDestroy(w1, d) ELSE takeDamage(w1, d, PROJECTILE_DAMAGE)
                    IN checkDronesFrom_noBreak(w2, p, IF Includes(w2.waveManager.activeDrones, d) THEN j + 1 ELSE j)
               ELSE checkDronesFrom_noBreak(w, p, j + 1)

\* the inner loop of checkCollisions for projectile p, from drone index j
RECURSIVE checkDronesFrom(_, _, _)
checkDronesFrom(w, p, j) ==
  IF j > Len(w.waveManager.activeDrones) THEN w
  ELSE LET d == w.waveManager.activeDrones[j]
       IN IF ~w.drones[d].isActive \/ w.drones[d].health <= 0 THEN checkDronesFrom(w, p, j + 1)
          ELSE IF sphereToSphere(w.player.projectiles[p].position, PROJECTILE_SIZE, w.drones[d].position, droneRadius)
               THEN LET w1 == Emit([w EXCEPT !.player.projectiles[p].isActive = FALSE], "hit", d, w.drones[d].health)
                    IN IF w1.drones[d].health <= PROJECTILE_DAMAGE THEN forceDestroy(w1, d) ELSE takeDamage(w1, d, PROJECTILE_DAMAGE)
               ELSE checkDronesFrom(w, p, j + 1)

\* the outer loop of checkCollisions, from projectile index i
RECURSIVE checkProjectilesFrom(_, _)
checkProjectilesFrom(w, i) ==
  IF i > Len(w.player.activeProjectiles) THEN w
  ELSE LET p == w.player.activeProjectiles[i]
       IN IF ~w.player.projectiles[p].isActive THEN checkProjectilesFrom(w, i + 1)
          ELSE checkProjectilesFrom(checkDronesFrom(w, p, 1), i + 1)

\* CollisionManager.checkCollisions on the player's and the wave manager's arrays
checkCollisions(w) == checkProjectilesFrom(w, 1)

(***************************************************************************)
(* Game                                                                    *)
(***************************************************************************)
\* the clean-up loop at the end of Game.update, i is the 1-based index
RECURSIVE cleanupFrom(_, _)
cleanupFrom(w, i) ==
  IF i < 1 THEN w
  ELSE IF i > Len(w.waveManager.activeDrones) THEN cleanupFrom(w, i - 1)
  ELSE LET d == w.waveManager.activeDrones[i]
       IN IF w.drones[d].health <= 0 \/ ~w.drones[d].isActive
          THEN LET w1 == ListWrite([w EXCEPT !.waveManager.activeDrones = Splice(@, i)], d, "Game.update")
               IN cleanupFrom(IF w1.drones[d].health <= 0 THEN forceDestroy(w1, d) ELSE RemoveMesh(w1, d), i - 1)
          ELSE cleanupFrom(w, i - 1)

\* Game.startGame
Game_startGame(w) == WaveManager_reset(PlayerBase_reset(Player_reset(GameState_startGame(w, BaseMaxHealth))))

\* the pause toggle at the head of Game.update
pauseToggle(w, isPaused) ==
  IF ~isPaused THEN w
  ELSE IF w.gameState.state = "playing" THEN GameState_setState(w, "paused")
  ELSE IF w.gameState.state = "paused" THEN GameState_setState(w, "playing")
  ELSE w

\* Game.update that tests for hits before the wave manager has moved the drones
Game_update_collideFirst(w, deltaTime, isShooting, isPaused) ==
  LET cappedDeltaTime == Min(deltaTime, DtCap)
      w0 == pauseToggle([w EXCEPT !.player.sinceShot = Min(ShootCooldown, @ + deltaTime)], isPaused)
  IN IF w0.gameState.state # "playing" THEN w0
     ELSE LET w1 == Player_update(Emit(w0, "tick", 0, cappedDeltaTime), cappedDeltaTime, isShooting)
              w2 == checkCollisions(w1)
              w3 == WaveManager_update(w2, cappedDeltaTime)
          IN cleanupFrom(w3, Len(w3.waveManager.activeDrones))

\* Game.update: one frame; the log notes the capped frame time of a played frame
Game_update(w, deltaTime, isShooting, isPaused) ==
  LET cappedDeltaTime == Min(deltaTime, DtCap)
      w0 == pauseToggle([w EXCEPT !.player.sinceShot = Min(ShootCooldown, @ + deltaTime)], isPaused)
  IN IF w0.gameState.state # "playing" THEN w0
     ELSE LET w1 == Player_update(Emit(w0, "tick", 0, cappedDeltaTime), cappedDeltaTime, isShooting)
              w2 == WaveManager_update(w1, cappedDeltaTime)
              w3 == checkCollisions(w2)
          IN cleanupFrom(w3, Len(w3.waveManager.activeDrones))

(***************************************************************************)
(* The state after the Game constructor                                    *)
(***************************************************************************)
\* new BasicDrone({targetBase}); drone.init(); drone.setActive(false)
NewDrone == Drone_setMesh([health |-> BASIC_DRONE_HEALTH, speed |-> BASIC_DRONE_SPEED * PosScale, isActive |-> FALSE, position |-> 0, meshParent |-> FALSE, meshVisible |-> FALSE, scene |-> FALSE, waveNumber |-> 1, pathVariation |-> 0, notified |-> 0])

\* new Projectile(); projectile.init(); projectile.setActive(false)
NewProjectile == [isActive |-> FALSE, position |-> 0, direction |-> 1, elapsed |-> 0]

World == [drones |-> drones, waveManager |-> waveManager, gameState |-> gameState, playerBase |-> playerBase, player |-> player, events |-> << >>, ret |-> ret]

Commit(w, c) ==
  /\ drones' = w.drones
  /\ waveManager' = w.waveManager
  /\ gameState' = w.gameState
  /\ playerBase' = w.playerBase
  /\ player' = w.player
  /\ events' = w.events
  /\ ret' = w.ret
  /\ call' = c

Init ==
  /\ drones = [d \in DroneIds |-> NewDrone]
  /\ waveManager = [currentWave |-> 0, isWaveActive |-> FALSE, waveTimer |-> 0, spawnCount |-> 0, spawnTimer |-> 0, activeDrones |-> << >>]
  /\ gameState = [state |-> "menu", score |-> 0, wave |-> 0, baseHealth |-> BaseMaxHealth]
  /\ playerBase = [health |-> BaseMaxHealth, isActive |-> TRUE, destroyedFired |-> 0]
  /\ player = [projectiles |-> [p \in ProjIds |-> NewProjectile], activeProjectiles |-> << >>, sinceShot |-> ShootCooldown, cameraDirection |-> 1]
  /\ input = [isPaused |-> FALSE]
  /\ events = << >>
  /\ ret = TRUE
  /\ call = [op |-> "constructor", id |-> 0, arg |-> 0]

(***************************************************************************)
(* The game: frames, key presses and the start / restart buttons           *)
(***************************************************************************)
\* requestAnimationFrame -> Game.update; the space bar is down or up.
\* No frame is followed that would start a wave beyond MaxWave.
Frame ==
  \E deltaTime \in 1..MaxDelta, isShooting \in BOOLEAN :
    LET w == Game_update(World, deltaTime, isShooting, input.isPaused)
    IN /\ w.waveManager.currentWave <= MaxWave
       /\ Commit(w, [op |-> "Game.update", id |-> 0, arg |-> 0])
       /\ UNCHANGED input

\* InputManager.handleKeyDown for "p" / "escape"
KeyPause ==
  /\ input' = [input EXCEPT !.isPaused = ~@]
  /\ Commit(World, [op |-> "keydown", id |-> 0, arg |-> 0])

\* GameUI start / restart button -> Game.startGame
StartGame ==
  /\ gameState.state \in {"menu", "gameOver"}
  /\ Commit(Game_startGame(World), [op |-> "Game.startGame", id |-> 0, arg |-> 0])
  /\ UNCHANGED input

Next == Frame \/ KeyPause \/ StartGame

Spec == Init /\ [][Next]_vars


(***************************************************************************)
(* Direct callers: once the game is started, the public methods called    *)
(* one at a time, in any order, with the capped frame time                 *)
(***************************************************************************)
Quiet ==
  /\ gameState.state # "menu"
  /\ \A d \in DroneIds : drones[d].notified < MaxNotified
  /\ playerBase.destroyedFired < MaxNotified
  /\ gameState.score <= MaxScore

\* drone.takeDamage(amount)
CallTakeDamage ==
  \E d \in DroneIds, amount \in Amounts :
    /\ Quiet
    /\ Commit(takeDamage(World, d, amount), [op |-> "takeDamage", id |-> d, arg |-> amount])
    /\ UNCHANGED input

\* drone.forceDestroy()
CallForceDestroy ==
  \E d \in DroneIds :
    /\ Quiet
    /\ Commit(forceDestroy(World, d), [op |-> "forceDestroy", id |-> d, arg |-> 0])
    /\ UNCHANGED input

\* drone.update(deltaTime)
CallDroneUpdate ==
  \E d \in DroneIds, deltaTime \in {MaxDelta} :
    /\ Quiet
    /\ Commit(Drone_update(World, d, deltaTime), [op |-> "update", id |-> d, arg |-> deltaTime])
    /\ UNCHANGED input

\* drone.reset(position), on a drone whose life cycle has completed
CallDroneReset ==
  \E d \in DroneIds :
    /\ gameState.state # "menu"
    /\ drones[d].health = 0 /\ ~drones[d].isActive /\ ~drones[d].meshParent
    /\ Commit(Drone_reset(World, d, getRandomSpawnPosition(World)), [op |-> "reset", id |-> d, arg |-> getRandomSpawnPosition(World)])
    /\ UNCHANGED input

\* playerBase.damage(amount)
CallBaseDamage ==
  \E amount \in Amounts :
    /\ Quiet
    /\ Commit(PlayerBase_damage(World, amount), [op |-> "damage", id |-> 0, arg |-> amount])
    /\ UNCHANGED input

\* playerBase.reset()
CallBaseReset ==
  /\ gameState.state # "menu"
  /\ Commit(PlayerBase_reset(World), [op |-> "baseReset", id |-> 0, arg |-> 0])
  /\ UNCHANGED input

\* waveManager.update(deltaTime)
CallWaveUpdate ==
  \E deltaTime \in {MaxDelta} :
    LET w == WaveManager_update(World, deltaTime)
    IN /\ Quiet
       /\ w.waveManager.currentWave <= MaxWave
       /\ Commit(w, [op |-> "WaveManager.update", id |-> 0, arg |-> deltaTime])
       /\ UNCHANGED input

\* game.startGame(), once
CallStartGame ==
  /\ gameState.state = "menu"
  /\ Commit(Game_startGame(World), [op |-> "Game.startGame", id |-> 0, arg |-> 0])
  /\ UNCHANGED input

\* one session of the game, never paused
FairNext == Frame \/ CallStartGame

\* ENABLED <<Frame>>_vars as a state predicate: some frame time and fire key
\* give a frame within MaxWave that changes the state
FrameEnabled ==
  \E deltaTime \in 1..MaxDelta, isShooting \in BOOLEAN :
    LET w == Game_update(World, deltaTime, isShooting, input.isPaused)
    IN /\ w.waveManager.currentWave <= MaxWave
       /\ <<w.drones, w.waveManager, w.gameState, w.playerBase, w.player, w.events, w.ret, [op |-> "Game.update", id |-> 0, arg |-> 0]>>
            # <<drones, waveManager, gameState, playerBase, player, events, ret, call>>

\* fair ticking: the animation loop requests the next frame at the end of
\* every frame, so a frame that can run does run. This is weak fairness of
\* Frame, WF_vars(Frame), written out with FrameEnabled for its ENABLED.
FairTicking == []<>(~FrameEnabled) \/ []<><<Frame>>_vars

FairSpec == Init /\ [][FairNext]_vars /\ FairTicking

\* the drone pool and the wave manager under direct calls
DroneApiNext == CallTakeDamage \/ CallForceDestroy \/ CallDroneUpdate \/ CallDroneReset \/ CallWaveUpdate \/ CallStartGame

DroneApiSpec == Init /\ [][DroneApiNext]_vars

\* the destruction callback of a pooled drone, with no points or the drone's
CallNotifyDestroyed ==
  \E d \in DroneIds, points \in {0, BASIC_DRONE_POINTS} :
    /\ Quiet
    /\ Commit(notifyDestroyed(World, d, points), [op |-> "notifyDestroyed", id |-> d, arg |-> points])
    /\ UNCHANGED input

\* the wave manager's listener called back while the waves run
HandlerApiNext == CallNotifyDestroyed \/ CallWaveUpdate \/ CallStartGame

HandlerApiSpec == Init /\ [][HandlerApiNext]_vars

\* player.update(deltaTime, inputState, scene), the clock moved on by deltaTime
CallPlayerUpdate ==
  \E deltaTime \in {MaxDelta}, isShooting \in BOOLEAN :
    /\ Quiet
    /\ Commit(Player_update([World EXCEPT !.player.sinceShot = Min(ShootCooldown, @ + deltaTime)], deltaTime, isShooting),
              [op |-> "Player.update", id |-> 0, arg |-> deltaTime])
    /\ UNCHANGED input

\* collisionManager.checkCollisions() on the player's and the wave manager's arrays
CallCheckCollisions ==
  /\ Quiet
  /\ Commit(checkCollisions(World), [op |-> "checkCollisions", id |-> 0, arg |-> 0])
  /\ UNCHANGED input

\* hit testing under direct calls: the three calls of a frame in any order
CollisionApiNext == CallPlayerUpdate \/ CallWaveUpdate \/ CallCheckCollisions \/ CallStartGame

CollisionApiSpec == Init /\ [][CollisionApiNext]_vars

\* the base under direct calls while the waves run
BaseApiNext == CallBaseDamage \/ CallBaseReset \/ CallWaveUpdate \/ CallStartGame

BaseApiSpec == Init /\ [][BaseApiNext]_vars

\* waveManager.update(deltaTime) in which the update of some drones throws
CallWaveUpdateCatching ==
  \E deltaTime \in 1..MaxDelta, raising \in SUBSET DroneIds :
    LET w == WaveManager_updateCatching(World, deltaTime, raising)
    IN /\ Quiet
       /\ w.waveManager.currentWave <= MaxWave
       /\ Commit(w, [op |-> "WaveManager.update", id |-> Cardinality(raising), arg |-> deltaTime])
       /\ UNCHANGED input

\* the wave manager ticking while drone updates may throw
RecoveryNext == CallWaveUpdateCatching \/ CallStartGame

RecoverySpec == Init /\ [][RecoveryNext]_vars

(***************************************************************************)
(* Wave configurations: the wave manager in any wave up to MaxConfigWave   *)
(* is asked for its configuration                                          *)
(***************************************************************************)
ConfigInit ==
  /\ drones = [d \in DroneIds |-> NewDrone]
  /\ \E n \in 1..MaxConfigWave : waveManager = [currentWave |-> n, isWaveActive |-> FALSE, waveTimer |-> 0, spawnCount |-> 0, spawnTimer |-> 0, activeDrones |-> << >>]
  /\ gameState = [state |-> "menu", score |-> 0, wave |-> 0, baseHealth |-> BaseMaxHealth]
  /\ playerBase = [health |-> BaseMaxHealth, isActive |-> TRUE, destroyedFired |-> 0]
  /\ player = [projectiles |-> [p \in ProjIds |-> NewProjectile], activeProjectiles |-> << >>, sinceShot |-> ShootCooldown, cameraDirection |-> 1]
  /\ input = [isPaused |-> FALSE]
  /\ events = << >>
  /\ ret = TRUE
  /\ call = [op |-> "constructor", id |-> 0, arg |-> 0]

\* waveManager.getCurrentWaveConfig()
CallGetCurrentWaveConfig ==
  /\ call' = [op |-> "getCurrentWaveConfig", id |-> waveManager.currentWave, arg |-> getCurrentWaveConfig(waveManager.currentWave)]
  /\ UNCHANGED <<drones, waveManager, gameState, playerBase, player, input, events, ret>>

\* waveManager.getRandomSpawnPosition(): its height for each draw
CallGetRandomSpawnPosition ==
  \E r \in 0..(RandomSteps - 1) :
    /\ call' = [op |-> "getRandomSpawnPosition", id |-> waveManager.currentWave, arg |-> spawnHeight(waveManager.currentWave, r)]
    /\ UNCHANGED <<drones, waveManager, gameState, playerBase, player, input, events, ret>>

\* waveManager.spawnDrone(), as update calls it when the spawn timer runs out
CallSpawnDrone ==
  /\ waveManager.isWaveActive /\ waveManager.spawnCount > 0
  /\ Commit(spawnDrone(World), [op |-> "spawnDrone", id |-> waveManager.currentWave, arg |-> 0])
  /\ UNCHANGED input

\* waveManager.startNextWave(), as update calls it when the wave timer runs
\* out, which it does only once activeDrones is empty
CallStartNextWave ==
  /\ waveManager.currentWave < MaxConfigWave
  /\ Len(waveManager.activeDrones) = 0
  /\ Commit(startNextWave(World), [op |-> "startNextWave", id |-> waveManager.currentWave + 1, arg |-> 0])
  /\ UNCHANGED input

ConfigNext == CallGetCurrentWaveConfig \/ CallGetRandomSpawnPosition \/ CallSpawnDrone \/ CallStartNextWave

ConfigSpec == ConfigInit /\ [][ConfigNext]_vars

(***************************************************************************)
(* Properties                                                              *)
(***************************************************************************)
\* the indices in the log ev of the events of type t about drone d
Fired(ev, t, d) == {i \in DOMAIN ev : ev[i].type = t /\ ev[i].id = d}
\* the number of events of type t in the log ev
Count(ev, t) == Cardinality({i \in DOMAIN ev : ev[i].type = t})
\* the hits of a projectile on a drone with at least its remaining health
LethalHits(ev) == {i \in DOMAIN ev : ev[i].type = "hit" /\ PROJECTILE_DAMAGE >= ev[i].val}
\* the drone updates that ended within baseSize + 1 of the base centre
BaseReaches(ev) == {i \in DOMAIN ev : ev[i].type = "droneUpdate" /\ distanceTo(ev[i].val, BASE_POSITION) < (baseSize + 1) * PosScale}
\* the later spawns, in the same log, of the drone that event i is about
RespawnedAfter(ev, i) == {k \in Fired(ev, "spawn", ev[i].id) : k > i}
\* the events of type t about the drone of event i that follow i in the life
\* the drone had then, that is before the wave manager spawned it again
InLifeAfter(ev, t, i) == {j \in Fired(ev, t, ev[i].id) : j > i /\ \A k \in RespawnedAfter(ev, i) : j < k}

\* C1: after every frame (and after every start or key press between frames)
\* each pooled drone whose health is 0 is inactive and its mesh has no parent.
DeadDronesAreCleared == \A d \in DroneIds : drones[d].health = 0 => ~drones[d].isActive /\ ~drones[d].meshParent

\* a frame in which a projectile killed a drone
C1_Witness == call.op = "Game.update" /\ \E i \in LethalHits(events) : drones[events[i].id].health = 0 /\ ~drones[events[i].id].isActive

\* C2: takeDamage on a drone whose health is 0 leaves the health at 0, returns
\* false, tells no listener, and leaves the score and activeDrones as they were.
TakeDamageOnDeadDrone ==
  [][\A d \in DroneIds : call'.op = "takeDamage" /\ call'.id = d /\ drones[d].health = 0 =>
        /\ drones'[d].health = 0
        /\ ret' = FALSE
        /\ Fired(events', "droneDestroyed", d) = {}
        /\ gameState'.score = gameState.score
        /\ waveManager'.activeDrones = waveManager.activeDrones]_vars

\* takeDamage with a positive amount returned from a drone that was dead before
\* the call, while another drone is in flight
C2_Witness ==
  /\ call.op = "takeDamage" /\ call.arg > 0 /\ ret = FALSE
  /\ drones[call.id].health = 0 /\ Fired(events, "droneDestroyed", call.id) = {}
  /\ Len(waveManager.activeDrones) > 0

\* C3: between one Drone.reset and the next the destruction notification of a
\* drone fires at most once, whatever takeDamage / forceDestroy / update calls
\* are made.
DestroyedAtMostOncePerLife == \A d \in DroneIds : drones[d].notified <= 1

\* C4: when Drone.reset(position) returns on a drone whose life cycle had
\* completed, the drone has full health, is active, is at the position and its
\* mesh is attached to the scene.
ResetYieldsCombatReadyDrone ==
  call.op = "reset" =>
    /\ drones[call.id].health = BASIC_DRONE_HEALTH
    /\ drones[call.id].isActive
    /\ drones[call.id].position = call.arg
    /\ drones[call.id].meshParent

\* C5: activeDrones holds pooled drones only, never more than the pool has,
\* and no drone twice.
ActiveDronesAreDistinctPoolDrones ==
  /\ \A i \in DOMAIN waveManager.activeDrones : waveManager.activeDrones[i] \in DroneIds
  /\ Len(waveManager.activeDrones) <= MaxDrones
  /\ \A i, j \in DOMAIN waveManager.activeDrones : waveManager.activeDrones[i] = waveManager.activeDrones[j] => i = j

\* the whole pool is in flight
C5_Witness == Len(waveManager.activeDrones) = MaxDrones /\ waveManager.spawnCount > 0

\* C6: at every frame boundary every drone in activeDrones is active and has
\* health above 0.
ActiveDronesAreAlive == \A i \in DOMAIN waveManager.activeDrones : drones[waveManager.activeDrones[i]].isActive /\ drones[waveManager.activeDrones[i]].health > 0

\* a frame in which one drone was killed while another stays in flight
C6_Witness == call.op = "Game.update" /\ Len(waveManager.activeDrones) > 0 /\ \E d \in DroneIds : Fired(events, "hit", d) # {} /\ drones[d].health = 0 /\ ~Includes(waveManager.activeDrones, d)

\* C7: a frame in which a projectile hits a drone with damage at least the
\* drone's health leaves the drone at health 0, notifies its destruction once
\* with the full points, raises the score by exactly these points, and ends
\* with the drone out of activeDrones.
LethalHitScoresOnce ==
  [][call'.op = "Game.update" =>
        /\ \A i \in LethalHits(events') :
              /\ drones'[events'[i].id].health = 0
              /\ Cardinality(InLifeAfter(events', "droneDestroyed", i)) = 1
              /\ \A j \in InLifeAfter(events', "droneDestroyed", i) : events'[j].val = BASIC_DRONE_POINTS
              /\ ~Includes(waveManager'.activeDrones, events'[i].id)
        /\ gameState'.score = gameState.score + BASIC_DRONE_POINTS * Cardinality(LethalHits(events'))]_vars

\* a frame with a lethal hit, after which the score shows the points
C7_Witness == call.op = "Game.update" /\ LethalHits(events) # {} /\ gameState.score >= BASIC_DRONE_POINTS

\* C8: a frame in which a drone comes within baseSize + 1 of the base centre
\* lowers the base health by the drone's damage (not below 0), notifies the
\* health change with the new value, deactivates the drone and notifies its
\* destruction once with 0 points, adds nothing to the score for it, and has
\* the drone out of activeDrones when the notification returns; the drone
\* stays out to the end of the frame unless the wave manager spawns it again.
BaseReachDamagesBase ==
  [][call'.op = "Game.update" =>
        /\ playerBase'.health = Max(0, playerBase.health - DroneDamage * Cardinality(BaseReaches(events')))
        /\ Count(events', "healthChange") = Cardinality(BaseReaches(events'))
        /\ BaseReaches(events') # {} => \E i \in DOMAIN events' : events'[i].type = "healthChange" /\ events'[i].val = playerBase'.health
        /\ \A i \in BaseReaches(events') :
              /\ Cardinality(InLifeAfter(events', "droneDestroyed", i)) = 1
              /\ \A j \in InLifeAfter(events', "droneDestroyed", i) : events'[j].val = 0
              /\ Cardinality(InLifeAfter(events', "droneGone", i)) = 1
              /\ \A j \in InLifeAfter(events', "droneGone", i) : events'[j].val = 1
              /\ RespawnedAfter(events', i) = {} => ~drones'[events'[i].id].isActive /\ ~Includes(waveManager'.activeDrones, events'[i].id)
        /\ gameState'.score = gameState.score + BASIC_DRONE_POINTS * Cardinality(LethalHits(events'))]_vars

\* a frame in which a drone reached the base and the damage was clamped at 0
C8_Witness ==
  /\ call.op = "Game.update" /\ playerBase.health = 0 /\ BaseMaxHealth % DroneDamage # 0
  /\ \E i \in BaseReaches(events) : RespawnedAfter(events, i) = {}

\* C9: between one PlayerBase.reset and the next the destroyed notification
\* of the base fires at most once.
BaseDestroyedAtMostOncePerSession == playerBase.destroyedFired <= 1

\* C10: under any damage / reset calls the base health stays within
\* 0..maxHealth; damage(amount) leaves max(0, health - amount), returns true
\* exactly when the resulting health is above 0, and every damage or reset
\* call notifies the health change exactly once.
BaseHealthClampedAndReported ==
  /\ [](0 <= playerBase.health /\ playerBase.health <= BaseMaxHealth)
  /\ [][/\ call'.op = "damage" =>
             /\ playerBase'.health = Max(0, playerBase.health - call'.arg)
             /\ ret' = (playerBase'.health > 0)
             /\ Count(events', "healthChange") = 1
        /\ call'.op = "baseReset" =>
             /\ playerBase'.health = BaseMaxHealth
             /\ Count(events', "healthChange") = 1]_vars

\* damage with more than the base can have left it at exactly 0 and returned false
C10_Witness == call.op = "damage" /\ call.arg > BaseMaxHealth /\ playerBase.health = 0 /\ ret = FALSE

\* the capped frame time of the frame the log ev is of, 0 when nothing was played
TickOf(ev) == IF \E i \in DOMAIN ev : ev[i].type = "tick" THEN ev[CHOOSE i \in DOMAIN ev : ev[i].type = "tick"].val ELSE 0

\* C11: a wave starts with its spawn timer at 0 and its configured total to
\* spawn, so the first played frame after the start spawns; after each spawn
\* attempt the timer is the spawn delay and runs down by the frame time, and
\* the next spawn is in the first frame in which it runs out; a frame spawns
\* at most one drone, only while the wave has drones left to spawn, and each
\* spawn lowers spawnCount by one; spawnCount stays within 0 and the wave's
\* total, and a wave ends only with spawnCount 0 (wave 1: three spawns, one
\* spawn delay apart).
SpawnsOnSchedule ==
  /\ [](waveManager.currentWave >= 1 => 0 <= waveManager.spawnCount /\ waveManager.spawnCount <= getWaveDroneCount(waveManager.currentWave))
  /\ [][call'.op = "Game.update" =>
          LET dt == TickOf(events')
              due == waveManager.isWaveActive /\ waveManager.spawnCount > 0 /\ waveManager.spawnTimer - dt <= 0
              waiting == waveManager.isWaveActive /\ waveManager.spawnCount > 0 /\ waveManager.spawnTimer - dt > 0
          IN /\ Count(events', "waveStart") > 0 =>
                  /\ waveManager'.spawnTimer = 0
                  /\ waveManager'.spawnCount = getWaveDroneCount(waveManager'.currentWave)
                  /\ Count(events', "spawn") = 0
             /\ dt > 0 /\ due =>
                  /\ Count(events', "spawn") <= 1
                  /\ waveManager'.spawnCount = waveManager.spawnCount - Count(events', "spawn")
                  /\ waveManager'.spawnTimer = getCurrentWaveConfig(waveManager.currentWave).spawnDelay
                  /\ Count(events', "spawn") = 0 => \A d \in DroneIds : drones'[d].isActive \/ \E i \in LethalHits(events') : events'[i].id = d
             /\ dt > 0 /\ waiting =>
                  /\ Count(events', "spawn") = 0
                  /\ waveManager'.spawnCount = waveManager.spawnCount
                  /\ waveManager'.spawnTimer = waveManager.spawnTimer - dt
             /\ ~(dt > 0 /\ due) => Count(events', "spawn") = 0
             /\ Count(events', "waveEnd") > 0 => waveManager.spawnCount = 0 /\ waveManager'.spawnCount = 0]_vars

\* the frame of the third and last spawn of wave 1
C11_Witness ==
  /\ call.op = "Game.update" /\ Count(events, "spawn") = 1
  /\ waveManager.currentWave = 1 /\ waveManager.spawnCount = 0
  /\ waveManager.spawnTimer = SpawnDelayBase /\ getWaveDroneCount(1) = 3

\* C12: a wave is active as long as it has drones left to spawn or a drone is
\* in activeDrones; it ends only in a frame that finds spawnCount 0 and
\* activeDrones empty, and does end in such a frame; ending sets waveTimer to
\* the wave delay and notifies the wave end once, for the current wave.
WaveEndsWhenCleared ==
  /\ [](~waveManager.isWaveActive => waveManager.spawnCount = 0 /\ Len(waveManager.activeDrones) = 0)
  /\ [][call'.op = "Game.update" =>
          /\ Count(events', "waveEnd") > 0 =>
                /\ waveManager.isWaveActive /\ ~waveManager'.isWaveActive
                /\ waveManager.spawnCount = 0 /\ Len(waveManager'.activeDrones) = 0
                /\ waveManager'.waveTimer = WaveCooldown
                /\ Count(events', "waveEnd") = 1
                /\ \A i \in DOMAIN events' : events'[i].type = "waveEnd" => events'[i].val = waveManager.currentWave
          /\ waveManager.isWaveActive /\ ~waveManager'.isWaveActive => Count(events', "waveEnd") = 1
          /\ TickOf(events') > 0 /\ waveManager.isWaveActive /\ waveManager.spawnCount = 0 /\ Len(waveManager.activeDrones) = 0 => Count(events', "waveEnd") = 1
          /\ Count(events', "waveStart") > 0 => ~waveManager.isWaveActive /\ waveManager'.currentWave = waveManager.currentWave + 1]_vars

\* the frame that ends wave 1, after a frame that left the last spawned drone alive
C12_Witness ==
  /\ call.op = "Game.update" /\ Count(events, "waveEnd") = 1
  /\ waveManager.currentWave = 1 /\ ~waveManager.isWaveActive /\ waveManager.waveTimer = WaveCooldown

\* C13: from each wave n >= 1 to the next the drone count does not fall and
\* the spawn delay does not rise, the count never exceeds the cap and the
\* delay never falls below the floor; wave 1 is the predefined configuration,
\* the later ones are generated.
WaveConfigMonotone ==
  call.op = "getCurrentWaveConfig" =>
    LET next == getCurrentWaveConfig(call.id + 1)
    IN /\ call.arg.basicDroneCount <= next.basicDroneCount
       /\ call.arg.basicDroneCount <= DroneCountCap /\ next.basicDroneCount <= DroneCountCap
       /\ call.arg.spawnDelay >= next.spawnDelay
       /\ call.arg.spawnDelay >= SpawnDelayFloor /\ next.spawnDelay >= SpawnDelayFloor

\* the configuration of a wave in which both clamps bind
C13_Witness ==
  /\ call.op = "getCurrentWaveConfig" /\ call.id > Len(waveConfigs)
  /\ call.arg.basicDroneCount = DroneCountCap /\ call.arg.spawnDelay = SpawnDelayFloor
  /\ INITIAL_WAVE_DRONE_COUNT + (call.id - 1) * WAVE_DRONE_INCREMENT > DroneCountCap

\* the speed of a drone of wave n: the base speed times 1 + (n - 1) * 0.05
WaveSpeed(n) == (BASIC_DRONE_SPEED * PosScale * (20 + (n - 1))) \div 20

\* C14: after every frame each drone the frame spawned, in wave n, has the
\* speed base * (1 + (n - 1) * 0.05), whatever it was spawned as before.
SpawnSpeedFollowsWave ==
  \A i \in DOMAIN events :
    events[i].type = "spawn" /\ RespawnedAfter(events, i) = {} => drones[events[i].id].speed = WaveSpeed(events[i].val)

\* C15 as stated: every drone the pool hands out is inactive and has health 0.
AcquiredDronesAreDead ==
  \A i \in DOMAIN events :
    events[i].type = "acquire" => events[i].val = 0 /\ events[i + 1].val = 0

\* C15: every drone the pool hands out is inactive and is not in
\* activeDrones; its health is 0 or more: above 0 for a drone that never
\* spawned or that was deactivated by reaching the base.
AcquiredDronesAreIdle ==
  \A i \in DOMAIN events :
    events[i].type = "acquire" =>
      /\ events[i].val >= 0
      /\ events[i + 1].type = "acquireActive" /\ events[i + 1].val = 0
      /\ events[i + 2].type = "acquireListed" /\ events[i + 2].val = 0

\* a frame in which a drone reached the base and was handed out again with
\* the health it had left
C15_Witness ==
  /\ call.op = "Game.update"
  /\ \E i \in BaseReaches(events) : \E j \in Fired(events, "acquire", events[i].id) :
       /\ j > i /\ events[j].val > 0 /\ events[j + 1].val = 0
       /\ Fired(events, "spawn", events[i].id) # {}

\* the log ev is of a frame whose due spawn found no drone in the pool
FailedAttempt(ev) == Count(ev, "spawnAttempt") = 1 /\ Count(ev, "acquire") = 0

\* what a frame with a due spawn and no free pool drone leaves: the count of
\* drones to spawn as it was, and nothing new in activeDrones
FailedAttemptChangesNothing ==
  call'.op = "Game.update" /\ FailedAttempt(events') =>
    /\ waveManager'.spawnCount = waveManager.spawnCount /\ waveManager'.spawnCount > 0
    /\ Count(events', "spawn") = 0
    /\ \A i \in DOMAIN waveManager'.activeDrones : Includes(waveManager.activeDrones, waveManager'.activeDrones[i])
    /\ waveManager'.isWaveActive /\ waveManager'.currentWave = waveManager.currentWave

WaveUpdateEvents == {"droneUpdate", "spawnAttempt", "acquire", "reset", "spawn", "waveStart", "waveEnd"}

\* C17: in every frame all that WaveManager.update does comes before the
\* first hit test that finds a hit, and when the frame is over (so before
\* the next frame's updateActiveDrones) every drone that was hit has lost the
\* projectile's damage, and one hit lethally has health 0, is inactive and
\* out of activeDrones, with its points on the score.
HitsAppliedWithinTick ==
  [][call'.op = "Game.update" =>
       /\ \A i, j \in DOMAIN events' : events'[i].type = "hit" /\ events'[j].type \in WaveUpdateEvents => j < i
       /\ \A i \in DOMAIN events' : events'[i].type = "hit" =>
            drones'[events'[i].id].health = Max(0, events'[i].val - PROJECTILE_DAMAGE)
       /\ \A i \in LethalHits(events') :
            /\ drones'[events'[i].id].health = 0 /\ ~drones'[events'[i].id].isActive
            /\ ~Includes(waveManager'.activeDrones, events'[i].id)
       /\ gameState'.score = gameState.score + BASIC_DRONE_POINTS * Cardinality(LethalHits(events'))]_vars

\* a frame in which the wave manager moved a drone and hit testing then
\* killed it, the other drone staying in activeDrones
C17_Witness ==
  /\ call.op = "Game.update"
  /\ \E i \in LethalHits(events) : \E j \in Fired(events, "droneUpdate", events[i].id) :
       /\ j < i /\ drones[events[i].id].health = 0 /\ ~Includes(waveManager.activeDrones, events[i].id)
       /\ gameState.score >= BASIC_DRONE_POINTS
  /\ Len(waveManager.activeDrones) > 0

\* C18: once the pause key was pressed while playing, the next frame pauses
\* the game, and every later frame leaves it paused and updates no gameplay
\* component, as long as the key is not pressed again.
PausedUntilKeyPressedAgain ==
  [][call'.op = "Game.update" /\ input.isPaused /\ gameState.state \in {"playing", "paused"} =>
       gameState'.state = "paused" /\ Count(events', "tick") = 0 /\ drones' = drones /\ waveManager' = waveManager
       /\ player'.projectiles = player.projectiles /\ player'.activeProjectiles = player.activeProjectiles]_vars

\* the methods whose statements wrote to activeDrones in the log ev
Writers(ev) == {ev[i].val : i \in {k \in DOMAIN ev : ev[k].type = "listWrite"}}

\* C19 as stated: activeDrones changes only in a frame, and there only by
\* statements of WaveManager.update and of the destruction handler.
OnlyUpdateAndHandlerWrite ==
  [][waveManager'.activeDrones # waveManager.activeDrones =>
       call'.op = "Game.update" /\ Writers(events') \subseteq {"WaveManager.update", "handleDroneDestroyed"}]_vars

\* C19: activeDrones is written only by WaveManager.update, by the
\* destruction handler and by WaveManager.reset, which empties it when a game
\* is started; the clean-up loop of Game.update never finds a drone to remove,
\* and no step changes the list without one of these writes.
OnlyWaveManagerWrites ==
  [][/\ Writers(events') \subseteq {"WaveManager.update", "handleDroneDestroyed", "WaveManager.reset"}
     /\ waveManager'.activeDrones # waveManager.activeDrones => Writers(events') # {}
     /\ "WaveManager.reset" \in Writers(events') <=> call'.op = "Game.startGame"
     /\ call'.op = "Game.startGame" => waveManager'.activeDrones = << >>
     /\ call'.op = "Game.update" =>
          \A d \in DroneIds :
            /\ Includes(waveManager.activeDrones, d) /\ ~Includes(waveManager'.activeDrones, d) => Fired(events', "droneDestroyed", d) # {}
            /\ ~Includes(waveManager.activeDrones, d) /\ Includes(waveManager'.activeDrones, d) => Fired(events', "spawn", d) # {}]_vars

\* a start of the game that dropped the drones the last game had left in
\* activeDrones
C19_Witness ==
  /\ call.op = "Game.startGame" /\ Len(waveManager.activeDrones) = 0
  /\ \E i \in DOMAIN events : events[i].type = "listWrite" /\ events[i].val = "WaveManager.reset" /\ events[i].id > 0

\* C20 as stated: a drone that was shot or reached the base and has not been
\* reset since has health 0, is inactive and has its mesh detached.
EndedDronesAreDestroyed ==
  \A d \in DroneIds : drones[d].notified > 0 => drones[d].health = 0 /\ ~drones[d].isActive /\ ~drones[d].meshParent

\* C20: a drone that was shot or reached the base and has not been reset
\* since is inactive and has its mesh detached; its health is 0 when it was
\* shot, and is what it was, above 0, when it reached the base.
EndedDronesAreInactive ==
  /\ [](\A d \in DroneIds : drones[d].notified > 0 => ~drones[d].isActive /\ ~drones[d].meshParent /\ drones[d].health >= 0)
  /\ [][call'.op = "Game.update" =>
          /\ \A i \in LethalHits(events') : drones'[events'[i].id].health = 0 /\ drones'[events'[i].id].notified > 0
          /\ \A i \in BaseReaches(events') : RespawnedAfter(events', i) = {} =>
               /\ drones'[events'[i].id].notified > 0
               /\ drones'[events'[i].id].health = drones[events'[i].id].health /\ drones'[events'[i].id].health > 0]_vars

\* a frame in which a drone reached the base and was left inactive, detached
\* and with its health
C20_Witness ==
  /\ call.op = "Game.update"
  /\ \E i \in BaseReaches(events) :
       /\ RespawnedAfter(events, i) = {} /\ drones[events[i].id].notified > 0
       /\ drones[events[i].id].health > 0 /\ ~drones[events[i].id].isActive /\ ~drones[events[i].id].meshParent

\* C21: Drone.update on an inactive drone leaves its position, health and
\* active flag alone, does not damage the base and tells no listener.
UpdateOnInactiveDroneIsNoOp ==
  [][\A d \in DroneIds : call'.op = "update" /\ call'.id = d /\ ~drones[d].isActive =>
        /\ drones'[d].position = drones[d].position
        /\ drones'[d].health = drones[d].health
        /\ ~drones'[d].isActive
        /\ playerBase' = playerBase
        /\ Fired(events', "droneDestroyed", d) = {}]_vars

\* C22: takeDamage(amount) on an active drone with health above amount > 0
\* takes amount off the health, returns true, tells no listener and leaves
\* the drone active and activeDrones and the score as they were; takeDamage
\* on an inactive drone changes nothing and returns false.
TakeDamageOnLiveDrone ==
  [][\A d \in DroneIds : call'.op = "takeDamage" /\ call'.id = d =>
        /\ drones[d].isActive /\ drones[d].health > call'.arg /\ call'.arg > 0 =>
             /\ drones'[d].health = drones[d].health - call'.arg
             /\ ret' = TRUE
             /\ Fired(events', "droneDestroyed", d) = {}
             /\ drones'[d].isActive
             /\ waveManager'.activeDrones = waveManager.activeDrones
             /\ gameState'.score = gameState.score
        /\ ~drones[d].isActive =>
             /\ ret' = FALSE /\ events' = << >>
             /\ drones' = drones /\ waveManager' = waveManager /\ gameState' = gameState /\ playerBase' = playerBase]_vars

\* takeDamage returned true from a drone in flight that keeps half its health
C22_Witness ==
  /\ call.op = "takeDamage" /\ call.arg > 0 /\ ret = TRUE
  /\ drones[call.id].health = BASIC_DRONE_HEALTH - call.arg /\ drones[call.id].isActive
  /\ Includes(waveManager.activeDrones, call.id)

\* C23: when the wave manager's listener is called for a drone with points p,
\* the score grows by p if p > 0 and stays otherwise; on return the drone is
\* out of activeDrones, inactive and its mesh has no parent; the other
\* drones are as they were and activeDrones keeps them, in their order.
HandlerRemovesOnlyItsDrone ==
  [][\A d \in DroneIds : call'.op = "notifyDestroyed" /\ call'.id = d =>
        /\ gameState'.score = gameState.score + (IF call'.arg > 0 THEN call'.arg ELSE 0)
        /\ ~Includes(waveManager'.activeDrones, d) /\ ~drones'[d].isActive /\ ~drones'[d].meshParent
        /\ \A e \in DroneIds \ {d} : drones'[e] = drones[e]
        /\ waveManager'.activeDrones = SelectSeq(waveManager.activeDrones, LAMBDA e : e # d)]_vars

\* the listener returned from a call with points for a drone that was in
\* flight, the other drone staying in activeDrones
C23_Witness ==
  /\ call.op = "notifyDestroyed" /\ call.arg > 0 /\ gameState.score >= call.arg
  /\ \E i \in DOMAIN events : events[i].type = "listWrite" /\ events[i].id = call.id /\ events[i].val = "handleDroneDestroyed"
  /\ ~drones[call.id].isActive /\ ~drones[call.id].meshParent /\ drones[call.id].health > 0
  /\ Len(waveManager.activeDrones) > 0

\* C24: in each WaveManager.update while playing, every drone that is in
\* activeDrones, active and alive when the call starts is updated exactly
\* once, also when a drone the reverse pass handled before it was removed by
\* the destruction callback; no other drone is updated.
EachLiveDroneUpdatedOnce ==
  [][call'.op = "WaveManager.update" /\ gameState.state = "playing" =>
       \A d \in DroneIds :
         Cardinality(Fired(events', "droneUpdate", d)) =
           (IF Includes(waveManager.activeDrones, d) /\ drones[d].isActive /\ drones[d].health > 0 THEN 1 ELSE 0)]_vars

\* a WaveManager.update in which the drone at the higher index reached the
\* base and was spliced out, and the drone below it was updated afterwards
C24_Witness ==
  /\ call.op = "WaveManager.update"
  /\ \E i \in BaseReaches(events) : \E j \in DOMAIN events :
       /\ j > i /\ events[j].type = "droneUpdate" /\ events[j].id # events[i].id
       /\ \E k \in i..j : events[k].type = "listWrite" /\ events[k].id = events[i].id /\ events[k].val = "handleDroneDestroyed"

\* C25: when a game is started, from the menu or after a game over in the
\* middle of a wave, WaveManager.reset leaves every pooled drone inactive
\* with its mesh detached, wave number 1, path variation 0 and the base
\* speed, activeDrones empty, currentWave 0, no wave active, nothing to
\* spawn and the short positive first delay on the wave timer; the wave that
\* starts next is wave 1 with the initial drone count.
ResetForNewSession ==
  /\ [][call'.op = "Game.startGame" =>
          /\ \A d \in DroneIds :
               /\ ~drones'[d].isActive /\ ~drones'[d].meshParent
               /\ drones'[d].waveNumber = 1 /\ drones'[d].pathVariation = 0
               /\ drones'[d].speed = BASIC_DRONE_SPEED * PosScale
          /\ waveManager'.activeDrones = << >> /\ waveManager'.currentWave = 0
          /\ ~waveManager'.isWaveActive /\ waveManager'.spawnCount = 0
          /\ waveManager'.waveTimer = FirstWaveDelay /\ waveManager'.waveTimer > 0]_vars
  /\ [][waveManager.currentWave = 0 /\ waveManager'.currentWave # 0 =>
          /\ Count(events', "waveStart") = 1
          /\ waveManager'.currentWave = 1 /\ waveManager'.isWaveActive
          /\ waveManager'.spawnCount = INITIAL_WAVE_DRONE_COUNT /\ INITIAL_WAVE_DRONE_COUNT = 3]_vars

\* a game started again after a game over that had left drones in
\* activeDrones, every pooled drone back at the base speed
C25_Witness ==
  /\ call.op = "Game.startGame" /\ waveManager.currentWave = 0 /\ waveManager.waveTimer = FirstWaveDelay
  /\ \E i \in DOMAIN events : events[i].type = "listWrite" /\ events[i].val = "WaveManager.reset" /\ events[i].id > 0
  /\ gameState.state = "playing" /\ gameState.score = 0
  /\ \A d \in DroneIds : drones[d].speed = BASIC_DRONE_SPEED * PosScale /\ ~drones[d].isActive

\* drone d is in the array hit testing walks, active and alive
Live(d) == Includes(waveManager.activeDrones, d) /\ drones[d].isActive /\ drones[d].health > 0
\* the spheres of projectile p and drone d overlap
Overlap(p, d) == sphereToSphere(player.projectiles[p].position, PROJECTILE_SIZE, drones[d].position, droneRadius)
\* projectile p is in the array hit testing walks and active
Flying(p) == Includes(player.activeProjectiles, p) /\ player.projectiles[p].isActive
\* the first drone in array order that projectile p can hit
FirstLive(p) ==
  waveManager.activeDrones[CHOOSE j \in DOMAIN waveManager.activeDrones :
    /\ Live(waveManager.activeDrones[j]) /\ Overlap(p, waveManager.activeDrones[j])
    /\ \A k \in 1..(j - 1) : ~(Live(waveManager.activeDrones[k]) /\ Overlap(p, waveManager.activeDrones[k]))]
\* the positions in the projectile array of the projectiles that can hit a drone
Hitters == {i \in DOMAIN player.activeProjectiles : Flying(player.activeProjectiles[i]) /\ \E d \in DroneIds : Live(d) /\ Overlap(player.activeProjectiles[i], d)}

\* C26: in one checkCollisions call there are as many hits as projectiles
\* that went inactive, each of them was flying and overlapped a live drone;
\* every drone hit was live and had the health the hit found; the first hit
\* is on the first live drone in array order that the first hitting
\* projectile overlaps; a projectile that stays active overlaps no drone
\* that is still alive; projectiles that were inactive and drones that were
\* not live are left as they were.
OneHitPerProjectile ==
  [][call'.op = "checkCollisions" =>
       LET shot == {p \in ProjIds : player.projectiles[p].isActive /\ ~player'.projectiles[p].isActive}
           hits == {i \in DOMAIN events' : events'[i].type = "hit"}
       IN /\ Cardinality(hits) = Cardinality(shot)
          /\ \A p \in shot : Flying(p) /\ \E d \in DroneIds : Live(d) /\ Overlap(p, d)
          /\ \A i \in hits : /\ Live(events'[i].id) /\ events'[i].val = drones[events'[i].id].health
                             /\ \E p \in shot : Overlap(p, events'[i].id)
          /\ Hitters # {} =>
               /\ hits # {}
               /\ LET i0 == CHOOSE i \in Hitters : \A k \in Hitters : i <= k
                      h0 == CHOOSE i \in hits : \A k \in hits : i <= k
                  IN events'[h0].id = FirstLive(player.activeProjectiles[i0]) /\ player.activeProjectiles[i0] \in shot
          /\ \A p \in ProjIds : Flying(p) /\ player'.projectiles[p].isActive =>
               \A d \in DroneIds : Live(d) /\ Overlap(p, d) => drones'[d].health <= 0
          /\ \A p \in ProjIds : ~player.projectiles[p].isActive => player'.projectiles[p] = player.projectiles[p]
          /\ \A d \in DroneIds : ~Live(d) => drones'[d] = drones[d] /\ Fired(events', "hit", d) = {}]_vars

\* a checkCollisions call whose one projectile overlapped both drones and hit
\* the first of them only
C26_Witness ==
  /\ call.op = "checkCollisions" /\ Count(events, "hit") = 1
  /\ \E p \in ProjIds, d \in DroneIds :
       /\ ~player.projectiles[p].isActive /\ Includes(player.activeProjectiles, p)
       /\ Live(d) /\ Overlap(p, d) /\ Fired(events, "hit", d) = {}
       /\ drones[d].health = BASIC_DRONE_HEALTH

\* C27: on an active drone with health above 0, takeDamage with at least the
\* remaining health leaves what forceDestroy would have left, and
\* forceDestroy leaves what takeDamage with the projectile's damage would
\* have left when that is at least the remaining health: the same drones,
\* activeDrones, score and notifications, with health 0, the drone inactive,
\* its mesh detached and one destruction notification with the full points.
LethalPathsAgree ==
  [][\A d \in DroneIds : call'.id = d /\ drones[d].isActive /\ drones[d].health > 0 =>
       LET other == IF call'.op = "takeDamage" THEN forceDestroy(World, d) ELSE takeDamage(World, d, PROJECTILE_DAMAGE)
       IN \/ /\ call'.op = "takeDamage" /\ call'.arg >= drones[d].health
             \/ /\ call'.op = "forceDestroy" /\ PROJECTILE_DAMAGE >= drones[d].health
          => /\ drones' = other.drones /\ waveManager' = other.waveManager /\ gameState' = other.gameState
             /\ playerBase' = other.playerBase /\ player' = other.player /\ events' = other.events
             /\ drones'[d].health = 0 /\ ~drones'[d].isActive /\ ~drones'[d].meshParent
             /\ Cardinality(Fired(events', "droneDestroyed", d)) = 1
             /\ \A i \in Fired(events', "droneDestroyed", d) : events'[i].val = BASIC_DRONE_POINTS
             /\ gameState'.score = gameState.score + BASIC_DRONE_POINTS
             /\ waveManager'.activeDrones = SelectSeq(waveManager.activeDrones, LAMBDA e : e # d)]_vars

\* takeDamage with more than the remaining health returned from a drone that
\* was in flight with the other drone
C27_Witness ==
  /\ call.op = "takeDamage" /\ call.arg > BASIC_DRONE_HEALTH /\ ret = FALSE
  /\ Cardinality(Fired(events, "droneDestroyed", call.id)) = 1 /\ Fired(events, "explosion", call.id) # {}
  /\ \E i \in DOMAIN events : events[i].type = "listWrite" /\ events[i].id = call.id
  /\ drones[call.id].health = 0 /\ Len(waveManager.activeDrones) > 0

\* the fast or tank count of a wave configuration, 0 when it has none
CountOf(config, field) == IF field \in DOMAIN config THEN config[field] ELSE 0

SpawnedDroneConfiguredForWave ==
  /\ call.op = "spawnDrone" =>
       \A i \in DOMAIN events : events[i].type = "spawn" =>
         /\ events[i].val = call.id /\ drones[events[i].id].waveNumber = call.id
         /\ drones[events[i].id].pathVariation = (IF call.id <= 2 THEN 0 ELSE (call.id - 2) * 3)
  /\ call.op = "getRandomSpawnPosition" /\ call.id >= 1 =>
       /\ call.arg >= 2 * RandomSteps
       /\ call.arg <= (10 + 2 * (call.id - 1)) * RandomSteps

\* a drone spawned in a wave from the third on, with a path variation
C29_Witness ==
  /\ call.op = "spawnDrone" /\ call.id >= 3 /\ Count(events, "spawn") = 1
  /\ \E d \in DroneIds : Fired(events, "spawn", d) # {} /\ drones[d].waveNumber = call.id /\ drones[d].pathVariation > 0 /\ drones[d].isActive

\* the wave notifications in the log ev
WaveNotes(ev) == {i \in DOMAIN ev : ev[i].type \in {"waveStart", "waveEnd"}}

\* C30: between two starts of the game currentWave never falls, and it rises
\* only at a wave start, by 1; a frame gives at most one wave notification; a
\* wave start comes only while no wave is active and leaves one active, a
\* wave end only while one is active and leaves none, and nothing else
\* switches isWaveActive, so starts and ends alternate, beginning with the
\* start of wave 1; each carries currentWave; a wave starts only in a frame
\* in which the wave timer has run down to 0 or below.
WaveNotificationsAlternate ==
  [][call'.op # "Game.startGame" =>
       /\ waveManager'.currentWave >= waveManager.currentWave
       /\ Cardinality(WaveNotes(events')) <= 1
       /\ waveManager'.currentWave # waveManager.currentWave <=> Count(events', "waveStart") = 1
       /\ waveManager'.isWaveActive # waveManager.isWaveActive <=> WaveNotes(events') # {}
       /\ \A i \in WaveNotes(events') :
            /\ events'[i].val = waveManager'.currentWave
            /\ events'[i].type = "waveStart" =>
                 /\ ~waveManager.isWaveActive /\ waveManager'.isWaveActive
                 /\ waveManager'.currentWave = waveManager.currentWave + 1
                 /\ waveManager.waveTimer - TickOf(events') <= 0
            /\ events'[i].type = "waveEnd" =>
                 /\ waveManager.isWaveActive /\ ~waveManager'.isWaveActive
                 /\ waveManager'.currentWave = waveManager.currentWave /\ waveManager.currentWave >= 1]_vars

\* the frame that starts wave 2, after wave 1 has ended and the cooldown has
\* run out
C30_Witness ==
  /\ call.op = "Game.update" /\ Count(events, "waveStart") = 1 /\ Count(events, "waveEnd") = 0
  /\ waveManager.currentWave = 2 /\ waveManager.isWaveActive /\ waveManager.waveTimer <= 0
  /\ waveManager.spawnCount = getWaveDroneCount(2)

\* C31: in every reachable state every pooled drone whose active flag is false
\* has its mesh hidden (visible false) or detached from the scene graph: after
\* the pool is built, after forceDestroy, after a base attack and after
\* WaveManager.reset
InactiveDronesAreHiddenOrDetached ==
  \A d \in DroneIds : ~drones[d].isActive => (~drones[d].meshVisible \/ ~drones[d].meshParent)

\* a frame in which a drone was shot: forceDestroy cleared the flag without
\* setActive, so the mesh is still marked visible, and it is detached
C31_Witness ==
  /\ call.op = "Game.update"
  /\ \E d \in DroneIds :
       /\ Fired(events, "explosion", d) # {}
       /\ ~drones[d].isActive /\ drones[d].meshVisible /\ ~drones[d].meshParent

\* C32: within a session the score never decreases and is the sum of the
\* points of the drones shot down by projectiles in the session, each counted
\* once: every step other than a start of a game adds the points of exactly
\* the drones it shot down, one scoring notification for each, and nothing
\* for a drone that reached the base or was cleaned up; a start sets it to 0.
ScoreIsSumOfShotDrones ==
  [][/\ call'.op = "Game.startGame" => gameState'.score = 0
     /\ call'.op # "Game.startGame" =>
          /\ gameState'.score >= gameState.score
          /\ gameState'.score = gameState.score + BASIC_DRONE_POINTS * Cardinality(LethalHits(events'))
          /\ Cardinality({i \in DOMAIN events' : events'[i].type = "droneDestroyed" /\ events'[i].val > 0}) = Cardinality(LethalHits(events'))
          /\ \A i \in BaseReaches(events') : \A j \in InLifeAfter(events', "droneDestroyed", i) : events'[j].val = 0]_vars

\* a frame that shoots down the second drone of a session in which a drone
\* has reached the base
C32_Witness ==
  /\ call.op = "Game.update"
  /\ LethalHits(events) # {}
  /\ gameState.score = 2 * BASIC_DRONE_POINTS
  /\ playerBase.health < BaseMaxHealth

\* C33: after every tick a pooled drone is active if and only if it is in
\* activeDrones, so that every drone outside activeDrones can be acquired
\* from the pool and no slot is leaked, also after the catch block of
\* updateActiveDrones has evicted a drone whose update threw
ActiveIffListed ==
  \A d \in DroneIds : drones[d].isActive <=> Includes(waveManager.activeDrones, d)

\* the indices in the log ev of what the running game does: a spawn, a start
\* or end of a wave, a change of the base health, a scoring destruction
Gameplay(ev) ==
  {j \in DOMAIN ev : \/ ev[j].type \in {"spawn", "waveStart", "waveEnd", "healthChange"}
                     \/ ev[j].type = "droneDestroyed" /\ ev[j].val > 0}

\* the indices in the log ev of the changes of the game state away from PLAYING
LeftPlaying(ev) == {k \in DOMAIN ev : ev[k].type = "stateChange" /\ ev[k].id # "playing"}

\* C34: once the game state has left PLAYING no drone is spawned, no wave
\* starts or ends, no base damage is applied and the score does not change:
\* not in the rest of the tick in which the state changed, and not in a tick
\* that finds and leaves the state other than PLAYING
NoGameplayOncePlayingEnded ==
  [][call'.op = "Game.update" =>
       /\ \A k \in LeftPlaying(events') : \A j \in Gameplay(events') : j < k
       /\ gameState.state # "playing" /\ gameState'.state # "playing" =>
            Gameplay(events') = {} /\ gameState'.score = gameState.score /\ playerBase' = playerBase]_vars

\* the indices in the log ev of the state changes notified with GAME_OVER as
\* the new state
GameOverNotes(ev) == {k \in DOMAIN ev : ev[k].type = "stateChange" /\ ev[k].id = "gameOver"}

\* C35: the listeners of GameState are told of an entry into GAME_OVER once
\* per session: a step notifies at most one state change to GAME_OVER, its
\* old state is not GAME_OVER, and a step that starts in GAME_OVER notifies
\* none
GameOverNotifiedOnce ==
  [][/\ Cardinality(GameOverNotes(events')) <= 1
     /\ \A k \in GameOverNotes(events') : events'[k].val # "gameOver"
     /\ gameState.state = "gameOver" => GameOverNotes(events') = {}]_vars

\* C36: whenever a wave is active the wave number GameState holds, which the
\* HUD shows, equals the wave manager's currentWave; it is 1 in the first
\* wave of every session
DisplayedWaveIsCurrentWave ==
  waveManager.isWaveActive => gameState.wave = waveManager.currentWave

\* C37: no projectile appears twice in the player's active-projectile list,
\* however shooting, lifespan expiry and deactivation by a hit interleave
NoProjectileListedTwice ==
  \A i, j \in 1..Len(player.activeProjectiles) : i # j => player.activeProjectiles[i] # player.activeProjectiles[j]

\* C38: under fair ticking, as long as the game state remains PLAYING, every
\* wave that starts spawns all of its drones and ends, also when it has more
\* drones than the pool, and every idle period between waves is followed by
\* the start of the next wave (up to the last wave followed, MaxWave)
WavesProgress ==
  \A n \in 1..MaxWave :
    /\ (waveManager.isWaveActive /\ waveManager.currentWave = n)
          ~> (gameState.state # "playing" \/ (waveManager.currentWave = n /\ waveManager.spawnCount = 0))
    /\ (waveManager.isWaveActive /\ waveManager.currentWave = n)
          ~> (gameState.state # "playing" \/ (waveManager.currentWave = n /\ ~waveManager.isWaveActive))
    /\ (~waveManager.isWaveActive /\ waveManager.currentWave = n - 1 /\ gameState.state = "playing")
          ~> (gameState.state # "playing" \/ (waveManager.currentWave = n /\ waveManager.isWaveActive))

\* the frame that ends wave 2, whose five drones went through the pool of
\* MaxDrones, with the game still being played
C38_Witness ==
  /\ call.op = "Game.update"
  /\ Count(events, "waveEnd") = 1
  /\ waveManager.currentWave = MaxWave /\ ~waveManager.isWaveActive
  /\ gameState.state = "playing"
  /\ getWaveDroneCount(MaxWave) > MaxDrones

\* the indices in the log ev of the steps at which the wave manager reads its
\* wave configuration: before a spawn delay is armed, when a wave is started
\* and when it is ended; each notes currentWave as it is at the read
ConfigLookups(ev) == {i \in DOMAIN ev : ev[i].type \in {"spawnAttempt", "waveStart", "waveEnd"}}

\* C39: in every reachable state isWaveActive implies currentWave >= 1, and
\* the wave configuration is never looked up while currentWave is 0, so
\* waveConfigs is never read at index -1, also right after construction and
\* right after reset()
NoConfigLookupInWaveZero ==
  [][/\ waveManager.isWaveActive => waveManager.currentWave >= 1
     /\ waveManager'.isWaveActive => waveManager'.currentWave >= 1
     /\ \A i \in ConfigLookups(events') : events'[i].val >= 1]_vars

\* the frame that starts wave 1 of a second session: the pooled drones still
\* stand where the session before left them, reset() had put currentWave
\* back to 0, and the configuration was read for wave 1
C39_Witness ==
  /\ call.op = "Game.update"
  /\ \E i \in ConfigLookups(events) : events[i].type = "waveStart" /\ events[i].val = 1
  /\ \E d \in DroneIds : drones[d].position # 0 /\ ~drones[d].isActive
  /\ waveManager.isWaveActive /\ waveManager.currentWave = 1
====
